---- MODULE Spec2Model ----
(***************************************************************************)
(* Model of lavaMase/filters.py: the nine effect units (Equalizer and the  *)
(* eight mapping-backed units) and the Filters aggregate.                  *)
(*                                                                         *)
(* Python objects have identity.  Every dict and every unit instance lives *)
(* in a heap and is named by an address <<id, role>>; a field that holds   *)
(* an object holds its address, so two holders of one address see each     *)
(* other's in-place writes.  Objects no holder reaches are dropped after   *)
(* every operation.                                                        *)
(***************************************************************************)
EXTENDS Integers, Sequences, FiniteSets, TLC

VARIABLES
    aggs,     \* caller variable -> Filters object: field -> volume value / unit address
    units,    \* mapping-backed unit instance -> address of its _payload dict
    eqs,      \* Equalizer instance -> its _payload table: band index -> entry address
    dicts,    \* dict object of a mapping-backed unit: wire key -> value
    entries,  \* band-entry dict object: [band, gain]
    ret,      \* the value the caller got back from the last payload / __call__
    last,     \* the last operation the caller ran, with its arguments
    focus     \* the part of the API this caller exercises

vars == <<aggs, units, eqs, dicts, entries, ret, last, focus>>

----------------------------------------------------------------------------
(* Values *)

None == "None"
Zero == "0.0"

\* floats a caller supplies to a unit field
InVals == {"0.5", "1.0"}

\* floats a caller assigns to volume
VolumeVals == {Zero, "1.0"}

NumBands == 15
HydrateLen == 15
MaxBand == 14

Bands == 0..(NumBands - 1)

\* the caller's variables that hold a Filters object
Aggs == {"f1", "f2"}

GenericKinds ==
    {"karaoke", "timescale", "tremolo", "vibrato", "rotation", "distortion",
     "channel_mix", "low_pass"}

UnitFields == GenericKinds \cup {"equalizer"}

Fields == UnitFields \cup {"volume"}

\* FiltersOptions: the keyword names of set_filters / from_filters
FiltersOptions == Fields

\* key of a field in the payload built by __call__ and read by _create_from
WireKey(f) ==
    CASE f = "channel_mix" -> "channelMix"
      [] f = "low_pass" -> "lowPass"
      [] OTHER -> f

GenericWireKeys == {WireKey(f) : f \in GenericKinds}

\* an option name no unit declares
Bogus == "bogus"

\* keyword names each unit's set documents (its Options / Payload TypedDict)
OptionNames(kind) ==
    CASE kind = "karaoke" -> {"level", "mono_level", "filter_band", "filter_width"}
      [] kind = "timescale" -> {"speed", "pitch", "rate"}
      [] kind = "tremolo" -> {"frequency", "depth"}
      [] kind = "vibrato" -> {"frequency", "depth"}
      [] kind = "rotation" -> {"rotation_hz"}
      [] kind = "distortion" ->
            {"sin_offset", "sin_scale", "cos_offset", "cos_scale",
             "tan_offset", "tan_scale", "offset", "scale"}
      [] kind = "channel_mix" ->
            {"left_to_left", "left_to_right", "right_to_left", "right_to_right"}
      [] kind = "low_pass" -> {"smoothing"}

----------------------------------------------------------------------------
(* dict helpers *)

EmptyMap == [k \in {} |-> None]

Range(f) == {f[x] : x \in DOMAIN f}

Restrict(f, S) == [x \in S |-> f[x]]

\* d.get(k)
DictGet(d, k) == IF k \in DOMAIN d THEN d[k] ELSE None

\* d.get(k, default)
Get(d, k, default) == IF k \in DOMAIN d THEN d[k] ELSE default

\* d.update(options), as a value
DictUpdate(d, options) ==
    [k \in DOMAIN d \cup DOMAIN options |->
        IF k \in DOMAIN options THEN options[k] ELSE d[k]]

----------------------------------------------------------------------------
(* The eight mapping-backed units: set with keyword options as a function from the   *)
(* stored _payload and the keyword arguments to the new _payload.          *)

Karaoke_set(payload, options) ==
    ("level" :> Get(options, "level", DictGet(payload, "level")))
    @@ ("monoLevel" :> Get(options, "mono_level", DictGet(payload, "monoLevel")))
    @@ ("filterBand" :> Get(options, "filter_band", DictGet(payload, "filterBand")))
    @@ ("filterWidth" :> Get(options, "filter_width", DictGet(payload, "filterWidth")))

Timescale_set(payload, options) == DictUpdate(payload, options)

Tremolo_set(payload, options) == DictUpdate(payload, options)

Vibrato_set(payload, options) == DictUpdate(payload, options)

Rotation_set(payload, options) ==
    ("rotationHz" :> Get(options, "rotation_hz", DictGet(payload, "rotationHz")))

Distortion_set(payload, options) ==
    ("sinOffset" :> Get(options, "sin_offset", DictGet(payload, "sinOffset")))
    @@ ("sinScale" :> Get(options, "sin_scale", DictGet(payload, "sinScale")))
    @@ ("cosOffset" :> Get(options, "cos_offset", DictGet(payload, "cosOffset")))
    @@ ("cosScale" :> Get(options, "cos_scale", DictGet(payload, "cosScale")))
    @@ ("tanOffset" :> Get(options, "tan_offset", DictGet(payload, "tanOffset")))
    @@ ("tanScale" :> Get(options, "tan_scale", DictGet(payload, "tanScale")))
    @@ ("offset" :> Get(options, "offset", DictGet(payload, "offset")))
    @@ ("scale" :> Get(options, "scale", DictGet(payload, "scale")))

ChannelMix_set(payload, options) ==
    ("leftToLeft" :> Get(options, "left_to_left", DictGet(payload, "leftToLeft")))
    @@ ("leftToRight" :> Get(options, "left_to_right", DictGet(payload, "leftToRight")))
    @@ ("rightToLeft" :> Get(options, "right_to_left", DictGet(payload, "rightToLeft")))
    @@ ("rightToRight" :> Get(options, "right_to_right", DictGet(payload, "rightToRight")))

LowPass_set(payload, options) == DictUpdate(payload, options)

\* the units whose set assigns a new dict to self._payload; the others
\* update the dict self._payload already names, in place
RebindsPayload(kind) == kind \in {"karaoke", "rotation", "distortion", "channel_mix"}

UnitSetValue(kind, payload, options) ==
    CASE kind = "karaoke" -> Karaoke_set(payload, options)
      [] kind = "timescale" -> Timescale_set(payload, options)
      [] kind = "tremolo" -> Tremolo_set(payload, options)
      [] kind = "vibrato" -> Vibrato_set(payload, options)
      [] kind = "rotation" -> Rotation_set(payload, options)
      [] kind = "distortion" -> Distortion_set(payload, options)
      [] kind = "channel_mix" -> ChannelMix_set(payload, options)
      [] kind = "low_pass" -> LowPass_set(payload, options)

----------------------------------------------------------------------------
(* Equalizer *)

\* {n: {"band": n, "gain": 0.0} for n in range(15)}: fifteen new entry dicts
DefaultTable(n) == [k \in Bands |-> <<n, k>>]

DefaultEntries(n) ==
    [e \in {<<n, k>> : k \in Bands} |-> [band |-> e[2], gain |-> Zero]]

\* a list literal the caller passes: its entry dicts are new objects
ListAddrs(n, L) == [i \in 1..Len(L) |-> <<n, NumBands - 1 + i>>]

ListEntries(n, L) ==
    [e \in {<<n, NumBands - 1 + i>> : i \in 1..Len(L)} |-> L[e[2] - NumBands + 1]]

\* the loop of Equalizer._set, were it to clamp a band outside 0..14 to the
\* nearest slot
RECURSIVE ApplyBands_clamps(_, _, _, _)
ApplyBands_clamps(default, payload, i, ent) ==
    IF i > Len(payload) THEN default
    ELSE LET eq == payload[i]
             band == ent[eq].band
             slot == IF band > MaxBand THEN MaxBand ELSE IF band < 0 THEN 0 ELSE band
         IN ApplyBands_clamps((slot :> eq) @@ default, payload, i + 1, ent)

\* the loop of Equalizer._set over payload[i..]
RECURSIVE ApplyBands(_, _, _, _)
ApplyBands(default, payload, i, ent) ==
    IF i > Len(payload) THEN default
    ELSE LET eq == payload[i]
             band == ent[eq].band
         IN IF band > MaxBand \/ band < 0
               THEN ApplyBands(default, payload, i + 1, ent)
               ELSE ApplyBands((band :> eq) @@ default, payload, i + 1, ent)

\* Equalizer._set(payload): the table, given the address block n of its defaults
Equalizer__set(n, payload, ent) == ApplyBands(DefaultTable(n), payload, 1, ent)

\* Equalizer.__init__(payload); a payload of None is the empty list here,
\* both are falsy
Equalizer_init(n, payload, ent) ==
    IF Len(payload) > 0 /\ Len(payload) = HydrateLen
       THEN Equalizer__set(n, payload, ent)
       ELSE DefaultTable(n)

\* Equalizer.set, had it gone through the length test of __init__
Equalizer_set_exactly15(n, options, ent) ==
    IF "bands" \notin DOMAIN options
       THEN DefaultTable(n)
       ELSE Equalizer_init(n, options["bands"], ent)

\* Equalizer.set with keyword options
Equalizer_set(n, options, ent) ==
    IF "bands" \notin DOMAIN options
       THEN DefaultTable(n)
       ELSE Equalizer__set(n, options["bands"], ent)

\* Equalizer.reset()
Equalizer_reset(n) == DefaultTable(n)

----------------------------------------------------------------------------
(* Heap *)

UsedIds ==
    {x[1] : x \in DOMAIN units} \cup {x[1] : x \in DOMAIN eqs}
    \cup {x[1] : x \in DOMAIN dicts} \cup {x[1] : x \in DOMAIN entries}

\* the id of the objects the next operation creates
NextId ==
    CHOOSE n \in 1..(Cardinality(UsedIds) + 1) :
        n \notin UsedIds /\ \A m \in 1..(n - 1) : m \in UsedIds

NoRet == [tag |-> "none"]

\* dict objects the caller reaches through the returned value r
RetDicts(r) ==
    CASE r.tag = "payload" -> {r.val[k] : k \in DOMAIN r.val \cap GenericWireKeys}
      [] r.tag = "mapping" -> {r.ref}
      [] OTHER -> {}

\* band-entry objects the caller reaches through the returned value r
RetEntries(r) ==
    CASE r.tag = "payload" ->
            IF "equalizer" \in DOMAIN r.val THEN Range(r.val["equalizer"]) ELSE {}
      [] r.tag = "table" -> Range(r.val)
      [] OTHER -> {}

\* the fields in the order Filters.__init__ assigns them
FieldSeq ==
    <<"volume", "equalizer", "karaoke", "timescale", "tremolo", "vibrato",
      "rotation", "distortion", "channel_mix", "low_pass">>

AggSeq == <<"f1", "f2">>

RECURSIVE Flatten(_)
Flatten(ss) == IF ss = <<>> THEN <<>> ELSE Head(ss) \o Flatten(Tail(ss))

\* the ids of the objects an aggregate reaches, in a fixed order
AggIds(agg, units2, eqs2) ==
    Flatten([i \in 1..Len(FieldSeq) |->
        LET f == FieldSeq[i]
        IN CASE f = "volume" -> <<>>
             [] f = "equalizer" ->
                    <<agg[f][1]>> \o [k \in 1..NumBands |-> eqs2[agg[f]][k - 1][1]]
             [] OTHER -> <<agg[f][1], units2[agg[f]][1]>>])

\* the ids of the objects a returned value reaches, in a fixed order
RetIds(r) ==
    CASE r.tag = "payload" ->
            Flatten([i \in 1..Len(FieldSeq) |->
                LET k == WireKey(FieldSeq[i])
                IN CASE k \notin DOMAIN r.val \/ k = "volume" -> <<>>
                     [] k = "equalizer" -> [j \in 1..Len(r.val[k]) |-> r.val[k][j][1]]
                     [] OTHER -> <<r.val[k][1]>>])
      [] r.tag = "mapping" -> <<r.ref[1]>>
      [] r.tag = "table" -> [j \in 1..NumBands |-> r.val[j - 1][1]]
      [] OTHER -> <<>>

\* the distinct elements of ids[i..], after those of acc, in order of
\* first appearance
RECURSIVE Distinct(_, _, _)
Distinct(ids, i, acc) ==
    IF i > Len(ids) THEN acc
    ELSE IF \E j \in 1..Len(acc) : acc[j] = ids[i]
            THEN Distinct(ids, i + 1, acc)
            ELSE Distinct(ids, i + 1, Append(acc, ids[i]))

\* object ids carry no meaning: number them in order of first appearance
Renumbering(ids) ==
    LET order == Distinct(ids, 1, <<>>)
    IN [x \in Range(order) |-> CHOOSE j \in 1..Len(order) : order[j] = x]

Inverse(rho) == [j \in Range(rho) |-> CHOOSE x \in DOMAIN rho : rho[x] = j]

RenAddr(rho, x) == <<rho[x[1]], x[2]>>

RenDomain(rho, inv, h) ==
    [x \in {RenAddr(rho, y) : y \in DOMAIN h} |-> h[<<inv[x[1]], x[2]>>]]

RenRet(rho, r) ==
    CASE r.tag = "payload" ->
            [r EXCEPT !.val =
                [k \in DOMAIN r.val |->
                    CASE k = "volume" -> r.val[k]
                      [] k = "equalizer" ->
                            [j \in 1..Len(r.val[k]) |-> RenAddr(rho, r.val[k][j])]
                      [] OTHER -> RenAddr(rho, r.val[k])]]
      [] r.tag = "mapping" -> [r EXCEPT !.ref = RenAddr(rho, r.ref)]
      [] r.tag = "table" -> [r EXCEPT !.val = [k \in Bands |-> RenAddr(rho, r.val[k])]]
      [] OTHER -> r

\* the record of the last operation names objects only under "given", the
\* unit each keyword of set_filters / from_filters supplied, and "prior",
\* the units the aggregate held when the call began; a unit nothing holds
\* any more has no address
RenLast(rho, l, live) ==
    IF "given" \in DOMAIN l
       THEN LET ren(h) == [k \in DOMAIN h |->
                              IF k = "volume" THEN h[k]
                              ELSE IF h[k] \in live THEN RenAddr(rho, h[k])
                              ELSE <<0, h[k][2]>>]
            IN [l EXCEPT !.given = ren(l.given), !.prior = ren(l.prior)]
       ELSE l

\* the returned value the caller still holds when it runs its next
\* operation: a caller that does not keep payloads has dropped it
Held == IF focus.keep THEN ret ELSE NoRet

\* the new state: what is still reachable of the given heap
Commit(aggs2, units2, eqs2, dicts2, entries2, ret2, last2) ==
    \E liveU \in {{aggs2[a][f] : a \in DOMAIN aggs2, f \in GenericKinds}} :
    \E liveQ \in {{aggs2[a]["equalizer"] : a \in DOMAIN aggs2}} :
    \E rho \in {Renumbering(Flatten([i \in 1..Len(AggSeq) |->
                                        IF AggSeq[i] \in DOMAIN aggs2
                                           THEN AggIds(aggs2[AggSeq[i]], units2, eqs2)
                                           ELSE <<>>])
                            \o RetIds(ret2))} :
    \E inv \in {Inverse(rho)} :
       LET liveD == {units2[u] : u \in liveU} \cup RetDicts(ret2)
           liveE == UNION {Range(eqs2[q]) : q \in liveQ} \cup RetEntries(ret2)
       IN /\ aggs' = [a \in DOMAIN aggs2 |->
                         [f \in Fields |->
                             IF f = "volume" THEN aggs2[a][f]
                             ELSE RenAddr(rho, aggs2[a][f])]]
          /\ units' = RenDomain(rho, inv, [u \in liveU |-> RenAddr(rho, units2[u])])
          /\ eqs'= RenDomain(rho, inv, [q \in liveQ |->
                                          [k \in DOMAIN eqs2[q] |-> RenAddr(rho, eqs2[q][k])]])
          /\ dicts' = RenDomain(rho, inv, Restrict(dicts2, liveD))
          /\ entries' = RenDomain(rho, inv, Restrict(entries2, liveE))
          /\ ret' = RenRet(rho, ret2)
          /\ last' = RenLast(rho, last2, liveU \cup liveQ)
          /\ UNCHANGED focus

\* the objects Filters.__init__ / _reset create, in address block n
FreshFilters(n) ==
    [f \in Fields |->
        IF f = "volume" THEN None ELSE <<n, f>>]

FreshUnits(n) == [u \in {<<n, f>> : f \in GenericKinds} |-> u]

FreshDicts(n) == [d \in {<<n, f>> : f \in GenericKinds} |-> EmptyMap]

FreshEqs(n) == [q \in {<<n, "equalizer">>} |-> DefaultTable(n)]

----------------------------------------------------------------------------
(* Filters.__call__ *)

\* the dict built at the top of __call__: it names the units' own dicts and
\* the Equalizer's own entry dicts
FullPayload(a) ==
    [k \in {WireKey(f) : f \in Fields} |->
        LET f == CHOOSE g \in Fields : WireKey(g) = k
        IN CASE f = "volume" -> aggs[a]["volume"]
             [] f = "equalizer" ->
                    [i \in 1..NumBands |-> eqs[aggs[a]["equalizer"]][i - 1]]
             [] OTHER -> units[aggs[a][f]]]

\* `value is None` in place of `not value`
Falsy_noneOnly(k, value, dcts) == k = "volume" /\ value = None

\* `not value` for the value under top-level key k
Falsy(k, value, dcts) ==
    CASE k = "volume" -> value \in {None, Zero}
      [] k = "equalizer" -> Len(value) = 0
      [] OTHER -> DOMAIN dcts[value] = {}

\* Filters.__call__(): the returned dict, by reference
Filters_call(a) ==
    LET payload == FullPayload(a)
    IN Restrict(payload, {k \in DOMAIN payload : ~Falsy(k, payload[k], dicts)})

\* a payload by value: every reference replaced by the content it names
PayloadValue(p, dcts, ent) ==
    [k \in DOMAIN p |->
        CASE k = "volume" -> p[k]
          [] k = "equalizer" -> [i \in 1..Len(p[k]) |-> ent[p[k][i]]]
          [] OTHER -> dcts[p[k]]]

\* what f() returns now, by value
Serialized(a) == PayloadValue(Filters_call(a), dicts, entries)

----------------------------------------------------------------------------
(* Filters construction *)

\* the field whose payload key is k
FieldOf(k) == CHOOSE f \in Fields : WireKey(f) = k

\* a payload literal D the caller writes: its dicts and entry dicts are new
\* objects of address block n; the payload then names them
LiteralRefs(n, D) ==
    [k \in DOMAIN D |->
        CASE k = "volume" -> D[k]
          [] k = "equalizer" -> ListAddrs(n, D[k])
          [] OTHER -> <<n, FieldOf(k)>>]

LiteralDicts(n, D) ==
    [d \in {<<n, FieldOf(k)>> : k \in DOMAIN D \cap GenericWireKeys} |->
        D[WireKey(d[2])]]

LiteralEntries(n, D) ==
    IF "equalizer" \in DOMAIN D THEN ListEntries(n, D["equalizer"]) ELSE <<>>

\* Filters._create_from(data): the fields of the aggregate
Filters__create_from(n, data) ==
    [f \in Fields |->
        IF f = "volume" THEN DictGet(data, "volume") ELSE <<n, f>>]

\* _create_from reading the FiltersOptions names in place of the payload keys
CreateFromUnits_optionNames(n, data) ==
    [u \in {<<n, f>> : f \in GenericKinds} |-> Get(data, u[2], u)]

\* Karaoke(data.get("karaoke", {})) and its seven siblings: each new unit
\* keeps the dict it is given, or a new empty one
CreateFromUnits(n, data) ==
    [u \in {<<n, f>> : f \in GenericKinds} |-> Get(data, WireKey(u[2]), u)]

\* Equalizer(data.get("equalizer", None))
CreateFromEqs(n, data, ent) ==
    [q \in {<<n, "equalizer">>} |->
        Equalizer_init(n, Get(data, "equalizer", <<>>), ent)]

\* a := Filters(data=data), data given by reference over the heap (dcts, ent)
Filters_init(a, data, dcts, ent, ret2, last2) ==
    \E n \in {NextId} : \E ent2 \in {ent @@ DefaultEntries(n)} :
       IF DOMAIN data = {}
          THEN Commit((a :> FreshFilters(n)) @@ aggs,
                      units @@ FreshUnits(n), eqs @@ FreshEqs(n),
                      dcts @@ FreshDicts(n), ent2, ret2, last2)
          ELSE Commit((a :> Filters__create_from(n, data)) @@ aggs,
                      units @@ CreateFromUnits(n, data),
                      eqs @@ CreateFromEqs(n, data, ent2),
                      dcts @@ FreshDicts(n), ent2, ret2, last2)

\* a := Filters(data=D) for a payload literal D
Construct(a, D) ==
    \E n \in {NextId} :
       Filters_init(a, LiteralRefs(n, D), LiteralDicts(n, D) @@ dicts,
                    LiteralEntries(n, D) @@ entries, Held,
                    [op |-> "construct", agg |-> a, data |-> D])

----------------------------------------------------------------------------
(* Operations on the units of an aggregate: a.<f>.set / reset / payload *)

\* a.<f>.set(options) for a mapping-backed unit
UnitSet(a, f, options) ==
    \E n \in {NextId} :
    LET u == aggs[a][f]
        d == units[u]
        new == UnitSetValue(f, dicts[d], options)
        done == [op |-> "unit_set", agg |-> a, fld |-> f, options |-> options,
                 before |-> dicts[d], raised |-> FALSE]
    IN IF RebindsPayload(f)
          THEN Commit(aggs, [units EXCEPT ![u] = <<n, f>>], eqs,
                      dicts @@ (<<n, f>> :> new), entries, Held, done)
          ELSE Commit(aggs, units, eqs, [dicts EXCEPT ![d] = new], entries, Held, done)

\* a.<f>.reset() for a mapping-backed unit
UnitReset(a, f) ==
    \E n \in {NextId} :
    LET u == aggs[a][f]
    IN Commit(aggs, [units EXCEPT ![u] = <<n, f>>], eqs,
              dicts @@ (<<n, f>> :> EmptyMap), entries, Held,
              [op |-> "unit_reset", agg |-> a, fld |-> f])

\* self._payload.copy(): the heap with the copy in it, at address c
DictCopy(c, d, dcts) == dcts @@ (c :> dcts[d])

\* the payload property of a mapping-backed unit: the address it returns
Unit_payload(c, d) == c

\* p = a.<f>.payload for a mapping-backed unit
UnitPayload(a, f) ==
    \E n \in {NextId} :
    LET d == units[aggs[a][f]]
    IN Commit(aggs, units, eqs, DictCopy(<<n, f>>, d, dicts), entries,
              [tag |-> "mapping", fld |-> f, ref |-> Unit_payload(<<n, f>>, d)],
              [op |-> "unit_payload", agg |-> a, fld |-> f])

\* p[k] = v on the mapping a payload property returned
RetWriteKey(k, v) ==
    /\ ret.tag = "mapping"
    /\ Commit(aggs, units, eqs,
              [dicts EXCEPT ![ret.ref] = DictUpdate(@, k :> v)], entries, ret,
              [op |-> "ret_write", key |-> k, value |-> v])

----------------------------------------------------------------------------
(* Initial states *)

\* f1 = Filters()
InitOne ==
    /\ aggs = [a \in {"f1"} |-> FreshFilters(1)]
    /\ units = FreshUnits(1)
    /\ eqs = FreshEqs(1)
    /\ dicts = FreshDicts(1)
    /\ entries = DefaultEntries(1)
    /\ ret = NoRet
    /\ last = [op |-> "init"]

\* f1 = Filters(); f2 = Filters()
InitTwo ==
    /\ aggs = [a \in Aggs |-> FreshFilters(IF a = "f1" THEN 1 ELSE 2)]
    /\ units = FreshUnits(1) @@ FreshUnits(2)
    /\ eqs = FreshEqs(1) @@ FreshEqs(2)
    /\ dicts = FreshDicts(1) @@ FreshDicts(2)
    /\ entries = DefaultEntries(1) @@ DefaultEntries(2)
    /\ ret = NoRet
    /\ last = [op |-> "init"]

----------------------------------------------------------------------------
(* SpecUnit: one caller working on one mapping-backed unit of f1 with a    *)
(* vocabulary of at most MaxVocab option names.                            *)

MaxVocab == 2

\* wire key of a caller-facing option name (the per-unit tables of the set
\* methods); a name the unit does not declare has no translation
WireName(o) ==
    CASE o = "mono_level" -> "monoLevel"
      [] o = "filter_band" -> "filterBand"
      [] o = "filter_width" -> "filterWidth"
      [] o = "rotation_hz" -> "rotationHz"
      [] o = "sin_offset" -> "sinOffset"
      [] o = "sin_scale" -> "sinScale"
      [] o = "cos_offset" -> "cosOffset"
      [] o = "cos_scale" -> "cosScale"
      [] o = "tan_offset" -> "tanOffset"
      [] o = "tan_scale" -> "tanScale"
      [] o = "left_to_left" -> "leftToLeft"
      [] o = "left_to_right" -> "leftToRight"
      [] o = "right_to_left" -> "rightToLeft"
      [] o = "right_to_right" -> "rightToRight"
      [] OTHER -> o

UnitFocuses ==
    UNION {{[fld |-> f, names |-> S, keep |-> FALSE] :
                S \in {T \in SUBSET (OptionNames(f) \cup {Bogus}) :
                            Cardinality(T) \in 1..MaxVocab}} :
           f \in GenericKinds}

\* keyword arguments over a vocabulary
OptionsOver(names) == UNION {[S -> InVals] : S \in SUBSET names}

InitUnit == InitOne /\ focus \in UnitFocuses

U_Construct ==
    \E P \in OptionsOver({WireName(o) : o \in focus.names \ {Bogus}}) :
        Construct("f1", WireKey(focus.fld) :> P)

U_Set == \E options \in OptionsOver(focus.names) : UnitSet("f1", focus.fld, options)

U_Reset == UnitReset("f1", focus.fld)

NextUnit == U_Construct \/ U_Set \/ U_Reset

SpecUnit == InitUnit /\ [][NextUnit]_vars

----------------------------------------------------------------------------
(* Operations on the Equalizer of an aggregate *)

\* a.equalizer.set(options); options is empty or holds a list literal
\* under "bands"
EqSet(a, options) ==
    \E n \in {NextId} :
    LET q == aggs[a]["equalizer"]
        L == Get(options, "bands", <<>>)
        ent2 == entries @@ DefaultEntries(n) @@ ListEntries(n, L)
        byRef == [k \in DOMAIN options |-> ListAddrs(n, options[k])]
    IN Commit(aggs, units, [eqs EXCEPT ![q] = Equalizer_set(n, byRef, ent2)],
              dicts, ent2, Held,
              [op |-> "eq_set", agg |-> a, options |-> options])

\* a.equalizer.reset()
EqReset(a) ==
    \E n \in {NextId} :
    LET q == aggs[a]["equalizer"]
    IN Commit(aggs, units, [eqs EXCEPT ![q] = Equalizer_reset(n)],
              dicts, entries @@ DefaultEntries(n), Held,
              [op |-> "eq_reset", agg |-> a])

\* the payload property of the Equalizer: self._payload.copy(), a new table
\* that names the entry dicts the Equalizer's own table names
Equalizer_payload(table) == [k \in DOMAIN table |-> table[k]]

\* p = a.equalizer.payload
EqPayload(a) ==
    Commit(aggs, units, eqs, dicts, entries,
           [tag |-> "table", val |-> Equalizer_payload(eqs[aggs[a]["equalizer"]])],
           [op |-> "eq_payload", agg |-> a])

\* p[k]["gain"] = g on the table a payload property returned
RetWriteGain(k, g) ==
    /\ ret.tag = "table"
    /\ Commit(aggs, units, eqs, dicts,
              [entries EXCEPT ![ret.val[k]].gain = g], ret,
              [op |-> "ret_write", key |-> k, value |-> g])

\* p[k] = {"band": k, "gain": g} on the table a payload property returned
RetReplaceEntry(k, g) ==
    /\ ret.tag = "table"
    /\ \E n \in {NextId} :
       LET L == <<[band |-> k, gain |-> g]>>
       IN Commit(aggs, units, eqs, dicts, entries @@ ListEntries(n, L),
                 [ret EXCEPT !.val[k] = ListAddrs(n, L)[1]],
                 [op |-> "ret_write", key |-> k, value |-> g])

\* the gains of a's Equalizer, band by band
Gains(a) == [k \in Bands |-> entries[eqs[aggs[a]["equalizer"]][k]].gain]

\* the entries of a's Equalizer, by value
TableValue(a) == [k \in Bands |-> entries[eqs[aggs[a]["equalizer"]][k]]]

\* the _payload of unit f of aggregate a, by value
UnitValue(a, f) == dicts[units[aggs[a][f]]]

\* what the units of aggregate a store, by value
StoredValue(a) ==
    [f \in UnitFields |->
        IF f = "equalizer" THEN TableValue(a) ELSE UnitValue(a, f)]

----------------------------------------------------------------------------
(* SpecEq: one caller working on the Equalizer of f1 with band lists of    *)
(* the lengths around 15, whose entries name the bands around 0 and 14.    *)

MaxEdits == 1

ListLens == {0, 1, HydrateLen - 1, HydrateLen, HydrateLen + 1}

\* the list that names band i - 1 at position i
BaseList(len) == [i \in 1..len |-> [band |-> i - 1, gain |-> "0.25"]]

EditEntries == [band : {-1, 0, MaxBand, MaxBand + 1}, gain : {"0.5", "1.0"}]

\* BaseList with its first or last entries replaced, at most MaxEdits of them
BandLists ==
    UNION {{[i \in 1..len |-> IF i \in DOMAIN E THEN E[i] ELSE BaseList(len)[i]] :
                E \in UNION {[P -> EditEntries] :
                                P \in {Q \in SUBSET ({1, len} \cap 1..len) :
                                            Cardinality(Q) <= MaxEdits}}} :
           len \in ListLens}

InitEq == InitOne /\ focus = [fld |-> "equalizer", names |-> {"bands"}, keep |-> FALSE]

Q_Construct == \E L \in BandLists : Construct("f1", "equalizer" :> L)

Q_Set == \E L \in BandLists : EqSet("f1", "bands" :> L)

Q_SetNoBands == EqSet("f1", EmptyMap)

Q_Reset == EqReset("f1")

NextEq == Q_Construct \/ Q_Set \/ Q_SetNoBands \/ Q_Reset

SpecEq == InitEq /\ [][NextEq]_vars

----------------------------------------------------------------------------
(* Operations on an aggregate *)

\* set_filters without reset, were it to fall back to None for an absent volume
Filters_set_filters_clearsVolume(cur, filters) ==
    [f \in Fields |->
        CASE f = "volume" -> DictGet(filters, "volume")
          [] f = "channel_mix" -> Get(filters, "channelMix", cur[f])
          [] f = "low_pass" -> Get(filters, "lowPass", cur[f])
          [] OTHER -> Get(filters, f, cur[f])]

\* _set_with_reset, were it to read the payload keys channelMix and lowPass
Filters__set_with_reset_wireKeys(n, filters) ==
    [f \in Fields |->
        IF f = "volume" THEN DictGet(filters, "volume")
        ELSE Get(filters, WireKey(f), <<n, f>>)]

\* the assignments of Filters.set_filters below the reset branch
Filters_set_filters(cur, filters) ==
    [f \in Fields |->
        CASE f = "channel_mix" -> Get(filters, "channelMix", cur[f])
          [] f = "low_pass" -> Get(filters, "lowPass", cur[f])
          [] OTHER -> Get(filters, f, cur[f])]

\* Filters._set_with_reset(filters); <<n, f>> is the unit newly made as the
\* default of field f
Filters__set_with_reset(n, filters) ==
    [f \in Fields |->
        IF f = "volume" THEN DictGet(filters, "volume") ELSE Get(filters, f, <<n, f>>)]

\* the option a caller probes each mapping-backed unit with
ProbeOption(f) ==
    CASE f = "karaoke" -> "level"
      [] f = "timescale" -> "speed"
      [] f = "tremolo" -> "frequency"
      [] f = "vibrato" -> "depth"
      [] f = "rotation" -> "rotation_hz"
      [] f = "distortion" -> "scale"
      [] f = "channel_mix" -> "left_to_left"
      [] f = "low_pass" -> "smoothing"

\* what a caller passes for field f: a volume; or the unit aggregate b holds
\* ("f1", "f2"); or a unit made for the call: Karaoke({}) ("empty"),
\* Karaoke({"level": 1.0}) ("probe"), Equalizer(None) ("default"),
\* Equalizer(<15 entries>) ("full")
Choices(f) ==
    CASE f = "volume" -> VolumeVals
      [] f = "equalizer" -> DOMAIN aggs \cup {"default", "full"}
      [] OTHER -> DOMAIN aggs \cup {"empty", "probe"}

UnitLiteral(f, c) ==
    IF c = "probe" THEN WireName(ProbeOption(f)) :> "1.0" ELSE EmptyMap

\* a.set_filters(reset=reset, k=<pass[k]> ...) with keywords for field fld,
\* and Filters.from_filters likewise
SetFilters(a, fld, pass, reset, opname) ==
    \E n \in {NextId} :
    LET fresh == {k \in DOMAIN pass : fld # "volume" /\ pass[k] \notin Aggs}
        given == [k \in DOMAIN pass |->
                    IF fld = "volume" THEN pass[k]
                    ELSE IF pass[k] \in Aggs THEN aggs[pass[k]][fld]
                    ELSE <<n, k>>]
        L == IF \E k \in fresh : pass[k] = "full" THEN BaseList(HydrateLen) ELSE <<>>
        ent2 == entries @@ DefaultEntries(n) @@ ListEntries(n, L)
        callerUnits == IF fld \in GenericKinds
                          THEN [u \in {<<n, k>> : k \in fresh} |-> u] ELSE <<>>
        callerDicts == IF fld \in GenericKinds
                          THEN [u \in {<<n, k>> : k \in fresh} |->
                                    UnitLiteral(fld, pass[u[2]])]
                          ELSE <<>>
        callerEqs == IF fld = "equalizer"
                        THEN [q \in {<<n, k>> : k \in fresh} |->
                                  Equalizer_init(n, ListAddrs(n, L), ent2)]
                        ELSE <<>>
        done == [op |-> opname, agg |-> a, reset |-> reset, given |-> given,
                 prior |-> aggs[a], priorValue |-> StoredValue(a)]
    IN IF reset
          THEN Commit([aggs EXCEPT ![a] = Filters__set_with_reset(n, given)],
                      callerUnits @@ FreshUnits(n) @@ units,
                      callerEqs @@ FreshEqs(n) @@ eqs,
                      callerDicts @@ FreshDicts(n) @@ dicts, ent2, Held, done)
          ELSE Commit([aggs EXCEPT ![a] = Filters_set_filters(aggs[a], given)],
                      callerUnits @@ units, callerEqs @@ eqs,
                      callerDicts @@ dicts, ent2, Held, done)

\* a.reset()
Reset(a) ==
    \E n \in {NextId} :
       Commit([aggs EXCEPT ![a] = FreshFilters(n)],
              units @@ FreshUnits(n), eqs @@ FreshEqs(n), dicts @@ FreshDicts(n),
              entries @@ DefaultEntries(n), Held, [op |-> "reset", agg |-> a])

\* a.volume = v
SetVolume(a, v) ==
    Commit([aggs EXCEPT ![a]["volume"] = v], units, eqs, dicts, entries, Held,
           [op |-> "set_volume", agg |-> a, value |-> v])

\* p = a()
Call(a) ==
    Commit(aggs, units, eqs, dicts, entries,
           [tag |-> "payload", val |-> Filters_call(a)], [op |-> "call", agg |-> a])

\* a := Filters(data=p) for the payload p a call returned
ConstructRet(a) ==
    /\ ret.tag = "payload"
    /\ Filters_init(a, ret.val, dicts, entries, ret, [op |-> "construct_ret", agg |-> a])

----------------------------------------------------------------------------
(* SpecAgg: one caller with one aggregate, passing keywords for one of the *)
(* ten fields and probing that field's unit; it uses a payload in the next *)
(* operation or not at all.                                                *)

\* the keywords a caller can pass for field f: its FiltersOptions name, and
\* the payload key where that differs
CallerKeys(f) == {f, WireKey(f)}

FieldLiterals(f) ==
    CASE f = "volume" -> VolumeVals
      [] f = "equalizer" -> {<<>>, BaseList(HydrateLen - 1), BaseList(HydrateLen)}
      [] OTHER -> {EmptyMap, UnitLiteral(f, "probe")}

\* a payload with every key set
FullData ==
    [k \in {WireKey(f) : f \in Fields} |->
        CASE k = "volume" -> "1.0"
          [] k = "equalizer" -> BaseList(HydrateLen)
          [] OTHER -> UnitLiteral(FieldOf(k), "probe")]

AggFocuses ==
    {[fld |-> f,
      names |-> CASE f = "volume" -> {}
                  [] f = "equalizer" -> {"bands"}
                  [] OTHER -> {ProbeOption(f)},
      keep |-> FALSE] : f \in Fields}

InitAgg == InitOne /\ focus \in AggFocuses

\* keyword arguments for the focus field
Passes == UNION {[K -> Choices(focus.fld)] : K \in SUBSET CallerKeys(focus.fld)}

A_Construct ==
    \/ \E x \in FieldLiterals(focus.fld) : Construct("f1", WireKey(focus.fld) :> x)
    \/ Construct("f1", EmptyMap)
    \/ Construct("f1", FullData)

A_ConstructRet == ConstructRet("f1")

A_SetFilters ==
    \E reset \in BOOLEAN, pass \in Passes :
        SetFilters("f1", focus.fld, pass, reset, "set_filters")

A_FromFilters ==
    \E pass \in Passes : SetFilters("f1", focus.fld, pass, TRUE, "from_filters")

A_Reset == Reset("f1")

A_SetVolume ==
    /\ focus.fld = "volume"
    /\ \E v \in VolumeVals : SetVolume("f1", v)

A_UnitSet ==
    /\ focus.fld \in GenericKinds
    /\ \E options \in OptionsOver(focus.names) : UnitSet("f1", focus.fld, options)

A_UnitReset ==
    /\ focus.fld \in GenericKinds
    /\ UnitReset("f1", focus.fld)

A_EqSet ==
    /\ focus.fld = "equalizer"
    /\ \/ EqSet("f1", EmptyMap)
       \/ EqSet("f1", "bands" :> <<[band |-> 0, gain |-> "0.5"]>>)

A_EqReset ==
    /\ focus.fld = "equalizer"
    /\ EqReset("f1")

A_Call == Call("f1")

NextAgg ==
    \/ A_Construct \/ A_ConstructRet \/ A_SetFilters \/ A_FromFilters \/ A_Reset
    \/ A_SetVolume \/ A_UnitSet \/ A_UnitReset \/ A_EqSet \/ A_EqReset \/ A_Call

SpecAgg == InitAgg /\ [][NextAgg]_vars

----------------------------------------------------------------------------
(* SpecSnap: one caller with one aggregate that keeps what payload and     *)
(* __call__ return, writes into it, and goes on working on the aggregate.  *)

SnapFocuses == {[fld |-> r.fld, names |-> r.names, keep |-> TRUE] : r \in AggFocuses}

InitSnap == InitOne /\ focus \in SnapFocuses

S_UnitSet ==
    /\ focus.fld \in GenericKinds
    /\ \E v \in InVals : UnitSet("f1", focus.fld, ProbeOption(focus.fld) :> v)

S_UnitReset ==
    /\ focus.fld \in GenericKinds
    /\ UnitReset("f1", focus.fld)

S_UnitPayload ==
    /\ focus.fld \in GenericKinds
    /\ UnitPayload("f1", focus.fld)

S_RetWriteKey ==
    /\ focus.fld \in GenericKinds
    /\ \E v \in InVals : RetWriteKey(WireName(ProbeOption(focus.fld)), v)

S_EqSet ==
    /\ focus.fld = "equalizer"
    /\ \/ EqSet("f1", EmptyMap)
       \/ EqSet("f1", "bands" :> <<[band |-> 0, gain |-> "0.5"]>>)

S_EqReset ==
    /\ focus.fld = "equalizer"
    /\ EqReset("f1")

S_EqPayload ==
    /\ focus.fld = "equalizer"
    /\ EqPayload("f1")

S_RetWriteGain ==
    /\ focus.fld = "equalizer"
    /\ \E k \in {0, MaxBand} : RetWriteGain(k, "1.0")

S_RetReplaceEntry ==
    /\ focus.fld = "equalizer"
    /\ \E k \in {0, MaxBand} : RetReplaceEntry(k, "1.0")

S_SetVolume ==
    /\ focus.fld = "volume"
    /\ \E v \in VolumeVals : SetVolume("f1", v)

S_SetFilters ==
    \E reset \in BOOLEAN, c \in Choices(focus.fld) :
        SetFilters("f1", focus.fld, focus.fld :> c, reset, "set_filters")

S_Reset == Reset("f1")

S_Call == Call("f1")

NextSnap ==
    \/ S_UnitSet \/ S_UnitReset \/ S_UnitPayload \/ S_RetWriteKey
    \/ S_EqSet \/ S_EqReset \/ S_EqPayload \/ S_RetWriteGain \/ S_RetReplaceEntry
    \/ S_SetVolume \/ S_SetFilters \/ S_Reset \/ S_Call

SpecSnap == InitSnap /\ [][NextSnap]_vars

----------------------------------------------------------------------------------------------------------------------------------------
(* SpecShare: one caller with two aggregates, building f2 from f1's        *)
(* payload and units and then working on the units of both.                *)

\* a unit whose set rebinds its mapping, one whose set updates it in place,
\* one whose payload key differs from its option name, and the Equalizer
ShareFields == {"karaoke", "timescale", "channel_mix", "equalizer"}

ShareFocuses == {r \in AggFocuses : r.fld \in ShareFields}

InitShare == InitTwo /\ focus \in ShareFocuses

\* what the caller passes to f2: f1's unit, or a unit made for the call
ShareChoices == {"f1", "probe", "full"} \cap Choices(focus.fld)

H_Call == Call("f1")

H_ConstructRet == ConstructRet("f2")

H_SetFilters ==
    \E reset \in BOOLEAN, c \in ShareChoices :
        SetFilters("f2", focus.fld, focus.fld :> c, reset, "set_filters")

H_FromFilters ==
    SetFilters("f2", focus.fld, focus.fld :> "f1", TRUE, "from_filters")

H_Reset == \E a \in Aggs : Reset(a)

H_UnitSet ==
    /\ focus.fld \in GenericKinds
    /\ \E a \in Aggs : UnitSet(a, focus.fld, ProbeOption(focus.fld) :> "0.5")

H_UnitReset ==
    /\ focus.fld \in GenericKinds
    /\ \E a \in Aggs : UnitReset(a, focus.fld)

H_EqSet ==
    /\ focus.fld = "equalizer"
    /\ \E a \in Aggs : EqSet(a, "bands" :> <<[band |-> 0, gain |-> "0.5"]>>)

H_EqReset ==
    /\ focus.fld = "equalizer"
    /\ \E a \in Aggs : EqReset(a)

NextShare ==
    \/ H_Call \/ H_ConstructRet \/ H_SetFilters \/ H_FromFilters \/ H_Reset
    \/ H_UnitSet \/ H_UnitReset \/ H_EqSet \/ H_EqReset

SpecShare == InitShare /\ [][NextShare]_vars

----------------------------------------------------------------------------
(* Claims about the mapping-backed units (SpecUnit) *)

\* C3: after set(fields) on a mapping-backed unit the payload's keys are the
\* prior keys united with the wire names of the supplied fields, each
\* supplied field carries its value and every other key keeps its prior
\* value; a field never supplied is absent.
C3_SetMergesSuppliedFields ==
    (last.op = "unit_set" /\ DOMAIN last.options \subseteq OptionNames(last.fld)) =>
        LET now == UnitValue(last.agg, last.fld)
            supplied == {WireName(o) : o \in DOMAIN last.options}
        IN /\ DOMAIN now = DOMAIN last.before \cup supplied
           /\ \A o \in DOMAIN last.options : now[WireName(o)] = last.options[o]
           /\ \A k \in DOMAIN last.before \ supplied : now[k] = last.before[k]

\* C8: set with a field name the unit does not declare raises an error and
\* leaves the payload unchanged.
C8_UnknownFieldRejected ==
    (last.op = "unit_set" /\ Bogus \in DOMAIN last.options) =>
        /\ last.raised
        /\ UnitValue(last.agg, last.fld) = last.before

----------------------------------------------------------------------------
(* Claims about the Equalizer (SpecEq) *)

\* the positions of list L that name band k
Naming(L, k) == {i \in 1..Len(L) : L[i].band = k}

\* the entry band k ends with when every entry of L is applied in order
Applied(L, k) ==
    IF Naming(L, k) = {} THEN [band |-> k, gain |-> Zero]
    ELSE L[CHOOSE i \in Naming(L, k) : \A j \in Naming(L, k) : j <= i]

AllDefault(a) == \A k \in Bands : Gains(a)[k] = Zero

\* C4 as claimed: Equalizer.set(bands=L) with a list whose length is not 15
\* leaves all 15 bands at gain 0.0.
C4_SetFollowsExactly15Rule ==
    (last.op = "eq_set" /\ "bands" \in DOMAIN last.options
        /\ Len(last.options["bands"]) # HydrateLen) => AllDefault(last.agg)

\* C4 as amended: Equalizer.set(bands=L) applies the in-range entries of L
\* whatever the length of L: each band holds the last entry of L that names
\* it, and gain 0.0 when none does.  Only construction applies the
\* exactly-15 rule.
C4_SetAppliesAnyLength ==
    /\ (last.op = "eq_set" /\ "bands" \in DOMAIN last.options) =>
            \A k \in Bands : TableValue(last.agg)[k] = Applied(last.options["bands"], k)
    /\ (last.op = "construct" /\ "equalizer" \in DOMAIN last.data) =>
            LET L == last.data["equalizer"]
            IN IF Len(L) = HydrateLen
                  THEN \A k \in Bands : TableValue(last.agg)[k] = Applied(L, k)
                  ELSE AllDefault(last.agg)

\* a set with a list of 14 entries has changed a band
C4_Witness ==
    /\ last.op = "eq_set"
    /\ "bands" \in DOMAIN last.options
    /\ Len(last.options["bands"]) = HydrateLen - 1
    /\ Gains(last.agg)[0] = "0.5"
    /\ Gains(last.agg)[1] = "0.25"

\* every slot of a's table holds its default entry or an entry of L that
\* names it
SlotsFrom(a, L) ==
    \A k \in Bands :
        TableValue(a)[k] \in {[band |-> k, gain |-> Zero]} \cup {L[i] : i \in Naming(L, k)}

\* C13: after any construction, set and reset the Equalizer's table has
\* exactly the keys 0..14 and the entry under key k has band k; an entry of
\* the input whose band is outside 0..14 is in no slot, and every slot holds
\* its default or an entry of the input that names it.
C13_EqualizerInvariant ==
    /\ \A a \in DOMAIN aggs :
           LET table == eqs[aggs[a]["equalizer"]]
           IN /\ DOMAIN table = 0..14
              /\ \A k \in DOMAIN table : entries[table[k]].band = k
    /\ (last.op = "eq_set" /\ "bands" \in DOMAIN last.options) =>
            SlotsFrom(last.agg, last.options["bands"])
    /\ (last.op = "construct" /\ "equalizer" \in DOMAIN last.data) =>
            SlotsFrom(last.agg, last.data["equalizer"])

\* a set was given a list that names band -1 or 15 and has changed the
\* bands the list names
C13_Witness ==
    /\ last.op = "eq_set" /\ "bands" \in DOMAIN last.options
    /\ LET L == last.options["bands"]
       IN /\ \E i \in 1..Len(L) : L[i].band \notin Bands
          /\ Gains(last.agg)[1] = "0.25"

----------------------------------------------------------------------------
(* Claims about the aggregate (SpecAgg) *)

\* C1: after set_filters without reset, called with FiltersOptions names,
\* the aggregate holds under each of the ten fields present in the call the
\* value the call supplied.
C1_SetFiltersStoresSuppliedFields ==
    (last.op = "set_filters" /\ ~last.reset
        /\ DOMAIN last.given \subseteq FiltersOptions) =>
        \A f \in DOMAIN last.given : aggs[last.agg][f] = last.given[f]

\* C2: a newly constructed default aggregate, and an aggregate reset() was
\* just called on, serialize to the empty payload.
C2_DefaultSerializesEmpty ==
    /\ last.op = "init" => \A a \in DOMAIN aggs : DOMAIN Serialized(a) = {}
    /\ last.op = "reset" => DOMAIN Serialized(last.agg) = {}

\* value v under top-level key k is null, an empty mapping or an empty
\* sequence
EmptyValue(k, v) ==
    CASE k = "volume" -> v = None
      [] k = "equalizer" -> v = <<>>
      [] OTHER -> DOMAIN v = {}

\* C5: in every reachable state the payload __call__ returns holds no
\* top-level key whose value is null, an empty mapping or an empty sequence.
C5_NoEmptyValueSerialized ==
    \A a \in DOMAIN aggs :
        \A k \in DOMAIN Serialized(a) : ~EmptyValue(k, Serialized(a)[k])

\* a call has returned a payload that holds the focus field's unit, once
\* set, and not the units left empty
C5_Witness ==
    /\ last.op = "call"
    /\ \E f \in GenericKinds :
          /\ DOMAIN UnitValue("f1", f) # {}
          /\ WireKey(f) \in DOMAIN ret.val
    /\ \E f \in GenericKinds :
          /\ DOMAIN UnitValue("f1", f) = {}
          /\ WireKey(f) \notin DOMAIN ret.val
    /\ aggs["f1"]["volume"] = None
    /\ "volume" \notin DOMAIN ret.val

\* C6: __call__ emits the volume key exactly when volume is not None.
C6_VolumeEmittedIffSet ==
    \A a \in DOMAIN aggs :
        ("volume" \in DOMAIN Filters_call(a)) <=> (aggs[a]["volume"] # None)

\* C7: an aggregate constructed from the payload a call returned serializes
\* to that payload.
C7_RoundTrip ==
    last.op = "construct_ret" =>
        Serialized(last.agg) = PayloadValue(ret.val, dicts, entries)

\* an aggregate was constructed from a returned payload that carries a
\* volume, a changed equalizer and the channelMix and lowPass units
C7_Witness ==
    /\ last.op = "construct_ret"
    /\ {"volume", "equalizer", "channelMix", "lowPass", "karaoke"} \subseteq DOMAIN ret.val
    /\ Gains("f1")[0] # Zero

\* C11: set_filters(timescale=T) without reset changes only the timescale
\* field: volume and the other eight units are the unit instances, with the
\* payloads, the aggregate held before the call.
C11_SetFiltersTimescaleFrame ==
    (last.op = "set_filters" /\ ~last.reset /\ DOMAIN last.given = {"timescale"}) =>
        /\ \A f \in Fields \ {"timescale"} : aggs[last.agg][f] = last.prior[f]
        /\ \A f \in UnitFields \ {"timescale"} :
               StoredValue(last.agg)[f] = last.priorValue[f]

\* set_filters(timescale=T) has replaced the timescale of an aggregate whose
\* volume, equalizer and karaoke were set
C11_Witness ==
    /\ last.op = "set_filters" /\ ~last.reset /\ DOMAIN last.given = {"timescale"}
    /\ aggs[last.agg]["timescale"] = last.given["timescale"]
    /\ aggs[last.agg]["timescale"] # last.prior["timescale"]
    /\ aggs[last.agg]["volume"] = "1.0"
    /\ DOMAIN UnitValue(last.agg, "karaoke") # {}
    /\ Gains(last.agg)[0] # Zero

\* field f of aggregate a holds its empty/default value
IsDefault(a, f) ==
    CASE f = "volume" -> aggs[a][f] = None
      [] f = "equalizer" -> \A k \in Bands : TableValue(a)[k] = [band |-> k, gain |-> Zero]
      [] OTHER -> UnitValue(a, f) = EmptyMap

\* aggregate a is in the state reset() leaves, and serializes as it does
AsReset(a) ==
    /\ \A f \in Fields : IsDefault(a, f)
    /\ Serialized(a) = ("equalizer" :> [i \in 1..NumBands |-> [band |-> i - 1, gain |-> Zero]])

\* C12: after set_filters with reset=true each of the ten fields holds the
\* supplied value when the call names it and its empty/default value, in a
\* new unit, when it does not; with no field named the aggregate is in the
\* state, and serializes to the payload, that reset() leaves.
C12_SetFiltersResetSetsEveryField ==
    /\ (last.op = "set_filters" /\ last.reset) =>
            /\ \A f \in Fields :
                   IF f \in DOMAIN last.given
                      THEN aggs[last.agg][f] = last.given[f]
                      ELSE /\ IsDefault(last.agg, f)
                           /\ f # "volume" => aggs[last.agg][f] # last.prior[f]
            /\ DOMAIN last.given = {} => AsReset(last.agg)
    /\ last.op = "reset" => AsReset(last.agg)

\* set_filters(reset=True) with no other keyword was called on an aggregate
\* whose volume, equalizer and units were set
C12_Witness ==
    /\ last.op = "set_filters" /\ last.reset /\ DOMAIN last.given = {}
    /\ last.prior["volume"] = "1.0"
    /\ DOMAIN last.priorValue["karaoke"] # {}
    /\ last.priorValue["equalizer"][0].gain # Zero
    /\ aggs[last.agg]["volume"] = None

----------------------------------------------------------------------------
(* Claims about returned values and sharing (SpecSnap, SpecShare) *)

\* the returned value the caller holds, by value
RetValue ==
    CASE ret.tag = "mapping" -> dicts[ret.ref]
      [] ret.tag = "table" -> [k \in Bands |-> entries[ret.val[k]]]
      [] ret.tag = "payload" -> PayloadValue(ret.val, dicts, entries)
      [] OTHER -> <<>>

UnitOps == {"unit_set", "unit_reset", "eq_set", "eq_reset"}

\* C9: what a unit's payload property returns is a deep snapshot: a write
\* into it, at any depth, leaves the unit's stored state as it was, and a
\* later set or reset on the unit leaves the returned value as it was.
C9_PayloadIsDeepSnapshot ==
    [][/\ last'.op = "ret_write" => StoredValue("f1")' = StoredValue("f1")
       /\ (last'.op \in UnitOps /\ ret.tag \in {"mapping", "table"}) =>
              RetValue' = RetValue]_vars

\* aggregates a and b hold no unit instance, payload dict or band entry in
\* common
Disjoint(a, b) ==
    /\ \A f \in UnitFields : aggs[a][f] # aggs[b][f]
    /\ \A f \in GenericKinds : units[aggs[a][f]] # units[aggs[b][f]]
    /\ Range(eqs[aggs[a]["equalizer"]]) \cap Range(eqs[aggs[b]["equalizer"]]) = {}

\* C10: no two aggregates ever hold the same unit instance or the same
\* payload mapping, and a set or reset on a unit of one aggregate leaves
\* what every other aggregate serializes to as it was.
C10_AggregatesShareNothing ==
    [][/\ Disjoint("f1", "f2")'
       /\ last'.op \in UnitOps =>
              \A b \in Aggs \ {last'.agg} : Serialized(b)' = Serialized(b)]_vars

\* the operations that follow a call in the claim
LaterOps == UnitOps \cup {"set_volume", "set_filters", "reset"}

\* C14: a payload __call__ returned is a snapshot: no later unit set or
\* reset, volume assignment, set_filters or reset changes its content, and
\* __call__ leaves the aggregate's state as it was.
C14_SerializeIsSnapshot ==
    [][/\ (ret.tag = "payload" /\ last'.op \in LaterOps) => RetValue' = RetValue
       /\ last'.op = "call" =>
              /\ StoredValue("f1")' = StoredValue("f1")
              /\ aggs'["f1"]["volume"] = aggs["f1"]["volume"]]_vars

====
